---- MODULE Spec2Model ----
(***************************************************************************)
(* Model of the career-notes-tracker application: the NotesApp component   *)
(* (in-memory note collection, search/sort state, load effect, filter      *)
(* effect, note handlers), the NoteForm submit handler, the noteStorage    *)
(* record store over localStorage and the noteUtils helpers.               *)
(*                                                                         *)
(* Strings are sequences of one-character strings.  A JavaScript value     *)
(* that may be undefined or null is a sequence of length 0 (absent) or 1.  *)
(* A Date is its number of milliseconds; its serialized form is the        *)
(* tagged pair <<"iso", ms>>.                                              *)
(***************************************************************************)
EXTENDS Integers, Sequences, FiniteSets, TLC

VARIABLES
    now,            \* the wall clock read by new Date() / Date.now()
    store,          \* the localStorage entry under NOTES_STORAGE_KEY
    notes,          \* NotesApp state: the in-memory collection
    rendered,       \* the value of `notes` captured by the rendered handlers
    filteredNotes,  \* NotesApp state: the displayed list
    effectPending,  \* the filter/sort effect has a changed dependency
    isLoading,      \* NotesApp state
    loadPhase,      \* which path the load effect took in this session
    showSearch,     \* NotesApp state
    searchFilters,  \* NotesApp state
    sortBy,         \* NotesApp state
    editingNote,    \* NotesApp state: <<>> is null
    isFormOpen,     \* NotesApp state
    errors,         \* NoteForm state: the error messages shown
    toast,          \* title of the toast shown last
    saves,          \* calls of handleSaveNote made so far
    call            \* the last call of a query-pipeline function (noteUtils)

vars == <<now, store, notes, rendered, filteredNotes, effectPending, isLoading,
          loadPhase, showSearch, searchFilters, sortBy, editingNote,
          isFormOpen, errors, toast, saves, call>>

(***************************************************************************)
(* Bounds                                                                  *)
(***************************************************************************)
MaxTime == 1
MaxRand == 3
MaxSaves == 1

\* the suffixes Math.random() can contribute to an id
Rand == 1..MaxRand

\* The three suffixes drawn while seeding.  Ids are only ever compared for
\* equality and no id exists when seeding runs, so the draws are taken up to
\* renaming: the first is 1 and each later one repeats an earlier draw or is
\* the next unused value.
SeedDraws ==
    {d \in [1..3 -> Rand] :
        /\ d[1] = 1
        /\ d[2] <= 2
        /\ d[3] <= (IF d[2] = 2 THEN 3 ELSE 2)}

(***************************************************************************)
(* Characters and strings                                                  *)
(***************************************************************************)
LowerLetters == <<"a","b","c","d","e","f","g","h","i","j","k","l","m",
                  "n","o","p","q","r","s","t","u","v","w","x","y","z">>
UpperLetters == <<"A","B","C","D","E","F","G","H","I","J","K","L","M",
                  "N","O","P","Q","R","S","T","U","V","W","X","Y","Z">>

IndexIn(c, s) == CHOOSE i \in DOMAIN s : s[i] = c

IsUpper(c) == \E i \in DOMAIN UpperLetters : UpperLetters[i] = c

\* String.prototype.toLowerCase on one character
LowerChar(c) == IF IsUpper(c) THEN LowerLetters[IndexIn(c, UpperLetters)] ELSE c

toLowerCase(s) == [i \in DOMAIN s |-> LowerChar(s[i])]

\* characters matched by \s in the model's alphabet
IsSpace(c) == c = " "

RECURSIVE trimStart(_)
trimStart(s) ==
    IF s # <<>> /\ IsSpace(Head(s)) THEN trimStart(Tail(s)) ELSE s

RECURSIVE trimEnd(_)
trimEnd(s) ==
    IF s # <<>> /\ IsSpace(s[Len(s)]) THEN trimEnd(SubSeq(s, 1, Len(s) - 1)) ELSE s

\* String.prototype.trim
trim(s) == trimEnd(trimStart(s))

\* String.prototype.includes
includes(s, q) ==
    \E i \in 1..(Len(s) - Len(q) + 1) : SubSeq(s, i, i + Len(q) - 1) = q

RECURSIVE join(_, _)
\* Array.prototype.join
join(parts, sep) ==
    IF parts = <<>> THEN <<>>
    ELSE IF Len(parts) = 1 THEN parts[1]
    ELSE parts[1] \o sep \o join(Tail(parts), sep)

\* Array.prototype.filter
filter(s, Keep(_)) == SelectSeq(s, Keep)

Range(s) == {s[i] : i \in DOMAIN s}

\* A call whose argument is evaluated once, before the call, as JavaScript
\* evaluates it: F applied to the value of v.
Call(F(_), v) == CHOOSE result \in {F(w) : w \in {v}} : TRUE

(***************************************************************************)
(* Note types (types/note.ts)                                              *)
(***************************************************************************)
Priorities == {"high", "medium", "low"}
Categories == {"bug", "task", "learning", "meeting", "feedback"}
SortOptions == {"newest", "oldest", "title", "priority"}

(***************************************************************************)
(* noteUtils                                                               *)
(***************************************************************************)
\* `note_${Date.now()}_${Math.random().toString(36).substr(2, 9)}`:
\* the timestamp and the random suffix
generateNoteId(t, r) == [t |-> t, r |-> r]

\* the characters of an enumeration identifier
EnumText(v) ==
    CASE v = "high" -> <<"h","i","g","h">>
      [] v = "medium" -> <<"m","e","d","i","u","m">>
      [] v = "low" -> <<"l","o","w">>
      [] v = "bug" -> <<"b","u","g">>
      [] v = "task" -> <<"t","a","s","k">>
      [] v = "learning" -> <<"l","e","a","r","n","i","n","g">>
      [] v = "meeting" -> <<"m","e","e","t","i","n","g">>
      [] v = "feedback" -> <<"f","e","e","d","b","a","c","k">>
      [] OTHER -> <<>>

\* matchesQuery comparing the query as typed with the lower-cased text
matchesQueryAsTyped(note, filters) ==
    \E searchableText \in
          {toLowerCase(join(<<note.title, note.content>> \o note.tags
                            \o <<EnumText(note.category),
                                 EnumText(note.priority)>>, <<" ">>))} :
        includes(searchableText, filters.query)

\* the text search of filterNotes
matchesQuery(note, filters) ==
    \E query \in {toLowerCase(filters.query)} :
    \E searchableText \in
          {toLowerCase(join(<<note.title, note.content>> \o note.tags
                            \o <<EnumText(note.category),
                                 EnumText(note.priority)>>, <<" ">>))} :
        includes(searchableText, query)

\* hasMatchingTag asking for a note tag equal to the requested tag
hasMatchingTagExact(note, tags) ==
    \E i \in DOMAIN tags : \E j \in DOMAIN note.tags :
        toLowerCase(note.tags[j]) = toLowerCase(tags[i])

\* the tags filter of filterNotes
hasMatchingTag(note, tags) ==
    \E i \in DOMAIN tags : \E j \in DOMAIN note.tags :
        includes(toLowerCase(note.tags[j]), toLowerCase(tags[i]))

\* keepNote retaining a note that passes any one of the present fields
keepNoteAnyField(note, filters) ==
    \/ \A field \in DOMAIN filters : filters[field] = <<>>
    \/ (filters.query # <<>> /\ matchesQuery(note, filters))
    \/ (filters.priority # <<>> /\ note.priority = filters.priority[1])
    \/ (filters.category # <<>> /\ note.category = filters.category[1])
    \/ (filters.isFavorite # <<>> /\ note.isFavorite = filters.isFavorite[1])
    \/ (filters.tags # <<>> /\ (Len(filters.tags[1]) > 0
                                  => hasMatchingTag(note, filters.tags[1])))

\* keepNote testing the favorite field for truthiness: false is no constraint
keepNoteFavoriteTruthy(note, filters) ==
    /\ (filters.query # <<>> => matchesQuery(note, filters))
    /\ (filters.priority # <<>> => note.priority = filters.priority[1])
    /\ (filters.category # <<>> => note.category = filters.category[1])
    /\ ((filters.isFavorite # <<>> /\ filters.isFavorite[1])
            => note.isFavorite = filters.isFavorite[1])
    /\ ((filters.tags # <<>> /\ Len(filters.tags[1]) > 0)
            => hasMatchingTag(note, filters.tags[1]))

\* the predicate filterNotes passes to Array.prototype.filter
keepNote(note, filters) ==
    /\ (filters.query # <<>> => matchesQuery(note, filters))
    /\ (filters.priority # <<>> => note.priority = filters.priority[1])
    /\ (filters.category # <<>> => note.category = filters.category[1])
    /\ (filters.isFavorite # <<>> => note.isFavorite = filters.isFavorite[1])
    /\ ((filters.tags # <<>> /\ Len(filters.tags[1]) > 0)
            => hasMatchingTag(note, filters.tags[1]))

filterNotes(ns, filters) ==
    LET Keep(n) == keepNote(n, filters) IN filter(ns, Keep)

priorityOrder(p) == CASE p = "high" -> 3 [] p = "medium" -> 2 [] OTHER -> 1

\* collation weight of a character: white space sorts before letters, and a
\* letter has the weight of its lower-case form
CharWeight(c) ==
    IF IsSpace(c) THEN 0
    ELSE IF \E i \in DOMAIN LowerLetters : LowerLetters[i] = LowerChar(c)
         THEN IndexIn(LowerChar(c), LowerLetters)
         ELSE 27

RECURSIVE LexCompare(_, _, _)
\* lexicographic comparison of two strings by weights W[c]: -1, 0 or 1
LexCompare(a, b, W) ==
    IF a = <<>> /\ b = <<>> THEN 0
    ELSE IF a = <<>> THEN -1
    ELSE IF b = <<>> THEN 1
    ELSE IF W[Head(a)] < W[Head(b)] THEN -1
    ELSE IF W[Head(a)] > W[Head(b)] THEN 1
    ELSE LexCompare(Tail(a), Tail(b), W)

\* String.prototype.localeCompare: letters first compare without case; strings
\* equal up to case are ordered lower case first
localeCompare(a, b) ==
    LET cs == Range(a) \cup Range(b)
        primary == LexCompare(a, b, [c \in cs |-> CharWeight(c)])
    IN  IF primary # 0 THEN primary
        ELSE LexCompare(a, b, [c \in cs |-> IF IsUpper(c) THEN 1 ELSE 0])

\* the comparator with the one of "newest" used for "oldest" as well
compareNotesAlwaysNewestFirst(a, b, option) ==
    CASE option = "newest" -> b.createdAt - a.createdAt
      [] option = "oldest" -> b.createdAt - a.createdAt
      [] option = "title" -> localeCompare(a.title, b.title)
      [] option = "priority" -> priorityOrder(b.priority) - priorityOrder(a.priority)
      [] OTHER -> 0

\* the comparator sortNotes hands to Array.prototype.sort
compareNotes(a, b, option) ==
    CASE option = "newest" -> b.createdAt - a.createdAt
      [] option = "oldest" -> a.createdAt - b.createdAt
      [] option = "title" -> localeCompare(a.title, b.title)
      [] option = "priority" -> priorityOrder(b.priority) - priorityOrder(a.priority)
      [] OTHER -> 0

RECURSIVE insertSortedBeforeEqual(_, _, _)
\* place x before the first element that does not compare smaller than it
insertSortedBeforeEqual(sorted, x, option) ==
    IF sorted = <<>> THEN <<x>>
    ELSE IF compareNotes(Head(sorted), x, option) >= 0 THEN <<x>> \o sorted
    ELSE <<Head(sorted)>> \o insertSortedBeforeEqual(Tail(sorted), x, option)

RECURSIVE insertSorted(_, _, _)
\* place x after every element that does not compare greater than it
insertSorted(sorted, x, option) ==
    IF sorted = <<>> THEN <<x>>
    ELSE IF compareNotes(Head(sorted), x, option) > 0 THEN <<x>> \o sorted
    ELSE <<Head(sorted)>> \o insertSorted(Tail(sorted), x, option)

RECURSIVE stableSort(_, _)
\* Array.prototype.sort (stable) on a copy of the array
stableSort(ns, option) ==
    IF ns = <<>> THEN <<>>
    ELSE Call(LAMBDA sorted : insertSorted(sorted, ns[Len(ns)], option),
              stableSort(SubSeq(ns, 1, Len(ns) - 1), option))

sortNotes(ns, option) == stableSort(ns, option)

\* the separators of /,+/
IsSeparatorCommaOnly(c) == c = ","

\* the separators of /[,\s]+/
IsSeparator(c) == c = "," \/ IsSpace(c)

RECURSIVE dropSeparators(_)
dropSeparators(s) ==
    IF s # <<>> /\ IsSeparator(Head(s)) THEN dropSeparators(Tail(s)) ELSE s

RECURSIVE splitFrom(_, _)
\* String.prototype.split(/[,\s]+/): the pieces between runs of separators,
\* an empty first or last piece included
splitFrom(s, piece) ==
    IF s = <<>> THEN <<piece>>
    ELSE IF IsSeparator(Head(s))
         THEN <<piece>> \o splitFrom(dropSeparators(Tail(s)), <<>>)
         ELSE splitFrom(Tail(s), Append(piece, Head(s)))

split(s) == splitFrom(s, <<>>)

parseTags(tagsString) ==
    IF trim(tagsString) = <<>> THEN <<>>
    ELSE LET pieces == split(tagsString)
             trimmed == [i \in DOMAIN pieces |-> trim(pieces[i])]
             NonEmpty(tag) == Len(tag) > 0
             kept == filter(trimmed, NonEmpty)
         IN  [i \in DOMAIN kept |-> toLowerCase(kept[i])]

\* an enumeration value that is falsy in JavaScript: undefined or ''
Undefined == "<undefined>"
Falsy(v) == v = Undefined \/ v = ""

\* validateNote testing the raw title and content
validateNoteUntrimmed(note) ==
    (IF note.title = <<>> THEN <<"Title is required">> ELSE <<>>)
    \o (IF note.content = <<>> THEN <<"Content is required">> ELSE <<>>)
    \o (IF Falsy(note.priority) THEN <<"Priority is required">> ELSE <<>>)
    \o (IF Falsy(note.category) THEN <<"Category is required">> ELSE <<>>)

\* validateNote returning after the first rule that fails
validateNoteFirstErrorOnly(note) ==
    IF trim(note.title) = <<>> THEN <<"Title is required">>
    ELSE IF trim(note.content) = <<>> THEN <<"Content is required">>
    ELSE IF Falsy(note.priority) THEN <<"Priority is required">>
    ELSE IF Falsy(note.category) THEN <<"Category is required">>
    ELSE <<>>

validateNote(note) ==
    (IF trim(note.title) = <<>> THEN <<"Title is required">> ELSE <<>>)
    \o (IF trim(note.content) = <<>> THEN <<"Content is required">> ELSE <<>>)
    \o (IF Falsy(note.priority) THEN <<"Priority is required">> ELSE <<>>)
    \o (IF Falsy(note.category) THEN <<"Category is required">> ELSE <<>>)

createNewNote(t, r) ==
    [id |-> generateNoteId(t, r), title |-> <<>>, content |-> <<>>,
     tags |-> <<>>, priority |-> "medium", category |-> "task",
     isFavorite |-> FALSE, createdAt |-> t, updatedAt |-> t]

(***************************************************************************)
(* noteStorage (lib/noteStorage.ts)                                        *)
(*                                                                         *)
(* store.present: localStorage holds an entry under the notes key;         *)
(* store.corrupt: the entry is not parseable as an array of notes;         *)
(* store.data:    the serialized notes of a parseable entry.               *)
(***************************************************************************)
HourMs == 60 * 60 * 1000
DayMs == 24 * HourMs

\* Date.prototype.toJSON, as JSON.stringify applies it: the ISO text of a
\* time value, YYYY-MM-DDTHH:mm:ss.sssZ, its date part held as the day
\* number it denotes
toISOString(ms) ==
    [day |-> ms \div DayMs, hour |-> (ms % DayMs) \div HourMs,
     minute |-> (ms % HourMs) \div 60000, second |-> (ms % 60000) \div 1000,
     milli |-> ms % 1000]

\* new Date(text) reading the text to the second
parseDateWholeSeconds(text) ==
    text.day * DayMs + text.hour * HourMs + text.minute * 60000
        + text.second * 1000

\* new Date(text) of an ISO string
parseDate(text) ==
    text.day * DayMs + text.hour * HourMs + text.minute * 60000
        + text.second * 1000 + text.milli

\* JSON.stringify of one note
stringifyNote(note) ==
    [note EXCEPT !.createdAt = toISOString(@), !.updatedAt = toISOString(@)]

\* JSON.stringify(notes)
stringify(ns) == [i \in DOMAIN ns |-> stringifyNote(ns[i])]

\* localStorage.setItem(NOTES_STORAGE_KEY, JSON.stringify(notes))
setItem(ns) == [present |-> TRUE, corrupt |-> FALSE, data |-> stringify(ns)]

NoEntry == [present |-> FALSE, corrupt |-> FALSE, data |-> <<>>]
CorruptEntry == [present |-> TRUE, corrupt |-> TRUE, data |-> <<>>]

getAllNotes(st) ==
    IF ~st.present \/ st.corrupt THEN <<>>
    ELSE [i \in DOMAIN st.data |->
            [st.data[i] EXCEPT !.createdAt = parseDate(@),
                               !.updatedAt = parseDate(@)]]

\* Array.prototype.findIndex by id: 0 stands for -1
findIndex(ns, id) ==
    IF \E i \in DOMAIN ns : ns[i].id = id
    THEN CHOOSE i \in DOMAIN ns : ns[i].id = id /\ \A j \in 1..(i - 1) : ns[j].id # id
    ELSE 0

\* saveNote with a catch block that only logs
saveNoteSwallowsError(st, note, writeOk) ==
    LET ns == getAllNotes(st)
        existingIndex == findIndex(ns, note.id)
        updated == IF existingIndex > 0
                   THEN [ns EXCEPT ![existingIndex] = note]
                   ELSE Append(ns, note)
    IN  [ok |-> TRUE, store |-> IF writeOk THEN setItem(updated) ELSE st]

\* saveNote: writeOk is whether localStorage.setItem returns normally;
\* ok = FALSE is the Error thrown to the caller
saveNote(st, note, writeOk) ==
    LET ns == getAllNotes(st)
        existingIndex == findIndex(ns, note.id)
        updated == IF existingIndex > 0
                   THEN [ns EXCEPT ![existingIndex] = note]
                   ELSE Append(ns, note)
    IN  IF writeOk THEN [ok |-> TRUE, store |-> setItem(updated)]
        ELSE [ok |-> FALSE, store |-> st]

\* deleteNote with the filter's test inverted
deleteNoteKeepsMatch(st, id, writeOk) ==
    LET ns == getAllNotes(st)
        SameId(n) == n.id = id
        filtered == filter(ns, SameId)
    IN  IF writeOk THEN [ok |-> TRUE, store |-> setItem(filtered)]
        ELSE [ok |-> FALSE, store |-> st]

deleteNote(st, id, writeOk) ==
    LET ns == getAllNotes(st)
        OtherId(n) == n.id # id
        filtered == filter(ns, OtherId)
    IN  IF writeOk THEN [ok |-> TRUE, store |-> setItem(filtered)]
        ELSE [ok |-> FALSE, store |-> st]

\* importNotes: the whole collection replaces the entry; ok = FALSE is the
\* Error thrown to the caller
importNotes(st, ns, writeOk) ==
    IF writeOk THEN [ok |-> TRUE, store |-> setItem(ns)]
    ELSE [ok |-> FALSE, store |-> st]

(***************************************************************************)
(* NotesApp (components/NotesApp.tsx)                                      *)
(***************************************************************************)
\* no query-pipeline function has been called
NoCall == [fn |-> "none"]

NoFilters ==
    [query |-> <<>>, priority |-> <<>>, category |-> <<>>,
     isFavorite |-> <<>>, tags |-> <<>>]

\* The notes of loadSampleData.  Each text is shortened to its first letter
\* and each tag to its first letter.
sampleNotes(t, r1, r2, r3) ==
    << [createNewNote(t, r1) EXCEPT
            !.title = <<"W">>, !.content = <<"T">>, !.priority = "high",
            !.category = "learning", !.tags = << <<"w">>, <<"g">> >>,
            !.isFavorite = TRUE],
       [createNewNote(t, r2) EXCEPT
            !.title = <<"B">>, !.content = <<"F">>, !.priority = "high",
            !.category = "bug", !.tags = << <<"f">>, <<"v">>, <<"u">> >>],
       [createNewNote(t, r3) EXCEPT
            !.title = <<"L">>, !.content = <<"K">>, !.priority = "medium",
            !.category = "learning", !.tags = << <<"r">>, <<"h">>, <<"b">> >>,
            !.isFavorite = TRUE] >>

RECURSIVE saveEach(_, _, _, _)
\* sampleNotes.forEach(note => noteStorage.saveNote(note)): the write of note
\* number failAt throws (0: none does) and ends the loop
saveEach(st, ns, i, failAt) ==
    IF i > Len(ns) THEN [ok |-> TRUE, store |-> st]
    ELSE LET res == saveNote(st, ns[i], i # failAt)
         IN  IF res.ok THEN saveEach(res.store, ns, i + 1, failAt) ELSE res

\* notes.find(n => n.id === id): <<>> stands for undefined
find(ns, id) ==
    IF findIndex(ns, id) > 0 THEN <<ns[findIndex(ns, id)]>> ELSE <<>>

\* updatedNotes of handleSaveNote
updatedNotes(ns, note) ==
    IF \E i \in DOMAIN ns : ns[i].id = note.id
    THEN [i \in DOMAIN ns |-> IF ns[i].id = note.id THEN note ELSE ns[i]]
    ELSE Append(ns, note)

\* the query pipeline of the filter/sort effect
displayed(ns, filters, option) ==
    Call(LAMBDA filtered : sortNotes(filtered, option), filterNotes(ns, filters))

Init ==
    /\ now = 0
    /\ store \in {NoEntry, CorruptEntry}
    /\ notes = <<>>
    /\ rendered = <<>>
    /\ filteredNotes = <<>>
    /\ effectPending = TRUE
    /\ isLoading = TRUE
    /\ loadPhase = "pending"
    /\ showSearch = FALSE
    /\ searchFilters = NoFilters
    /\ sortBy = "newest"
    /\ editingNote = <<>>
    /\ isFormOpen = FALSE
    /\ errors = <<>>
    /\ toast = "none"
    /\ saves = 0
    /\ call = NoCall

\* the position of the handlers' closure: with sync the component re-renders
\* before the next handler runs, without it the handlers keep their snapshot
Commit(sync) == rendered' = IF sync THEN notes' ELSE rendered

\* an event handler can run: the mount effects are done and, when renders
\* are not deferred, so is the filter effect of the last render
Ready(sync) == loadPhase # "pending" /\ (sync => ~effectPending)

\* what new Date() and Date.now() return while the system clock runs
\* forward: the last reading or a later instant
ClockReadings == now..MaxTime

\* what they return when the system clock can also be set back
AnyInstant == 0..MaxTime

\* the load effect with setIsLoading(false) as the last statement of the try
\* block instead of the finally block
LoadNotesNoFinally(avail, d, failAt, t) ==
    /\ loadPhase = "pending"
    /\ LET storedNotes == getAllNotes(store)
           samples == sampleNotes(t, d[1], d[2], d[3])
           seeded == saveEach(store, samples, 1, failAt)
       IN  IF ~avail
           THEN /\ toast' = "Storage Unavailable"
                /\ loadPhase' = "unavailable"
                /\ UNCHANGED <<now, store, notes, isLoading>>
           ELSE IF Len(storedNotes) # 0
           THEN /\ notes' = storedNotes
                /\ loadPhase' = "ok"
                /\ isLoading' = FALSE
                /\ UNCHANGED <<now, store, toast>>
           ELSE IF seeded.ok
           THEN /\ now' = t
                /\ store' = seeded.store
                /\ notes' = samples
                /\ toast' = "Welcome"
                /\ loadPhase' = "ok"
                /\ isLoading' = FALSE
           ELSE /\ now' = t
                /\ store' = seeded.store
                /\ notes' = storedNotes
                /\ toast' = "Error Loading Notes"
                /\ loadPhase' = "error"
                /\ UNCHANGED isLoading
    /\ rendered' = notes'
    /\ UNCHANGED <<filteredNotes, effectPending, showSearch,
                   searchFilters, sortBy, editingNote, isFormOpen, errors,
                   saves, call>>

\* the load effect without the return that follows the warning of an
\* unavailable storage
LoadNotesIgnoresProbe(avail, d, failAt, t) ==
    /\ loadPhase = "pending"
    /\ LET storedNotes == getAllNotes(store)
           samples == sampleNotes(t, d[1], d[2], d[3])
           seeded == saveEach(store, samples, 1, failAt)
       IN  IF Len(storedNotes) # 0
           THEN /\ notes' = storedNotes
                /\ loadPhase' = IF avail THEN "ok" ELSE "unavailable"
                /\ toast' = IF avail THEN toast ELSE "Storage Unavailable"
                /\ UNCHANGED <<now, store>>
           ELSE IF seeded.ok
           THEN /\ now' = t
                /\ store' = seeded.store
                /\ notes' = samples
                /\ toast' = "Welcome"
                /\ loadPhase' = IF avail THEN "ok" ELSE "unavailable"
           ELSE /\ now' = t
                /\ store' = seeded.store
                /\ notes' = storedNotes
                /\ toast' = "Error Loading Notes"
                /\ loadPhase' = "error"
    /\ isLoading' = FALSE
    /\ rendered' = notes'
    /\ UNCHANGED <<filteredNotes, effectPending, showSearch,
                   searchFilters, sortBy, editingNote, isFormOpen, errors,
                   saves, call>>

\* the load effect of NotesApp, run once after mounting
LoadNotes(avail, d, failAt, t) ==
    /\ loadPhase = "pending"
    /\ LET storedNotes == getAllNotes(store)
           samples == sampleNotes(t, d[1], d[2], d[3])
           seeded == saveEach(store, samples, 1, failAt)
       IN  IF ~avail
           THEN /\ toast' = "Storage Unavailable"
                /\ loadPhase' = "unavailable"
                /\ UNCHANGED <<now, store, notes>>
           ELSE IF Len(storedNotes) # 0
           THEN /\ notes' = storedNotes
                /\ loadPhase' = "ok"
                /\ UNCHANGED <<now, store, toast>>
           ELSE IF seeded.ok
           THEN /\ now' = t
                /\ store' = seeded.store
                /\ notes' = samples
                /\ toast' = "Welcome"
                /\ loadPhase' = "ok"
           ELSE /\ now' = t
                /\ store' = seeded.store
                /\ notes' = storedNotes
                /\ toast' = "Error Loading Notes"
                /\ loadPhase' = "error"
    /\ isLoading' = FALSE
    /\ rendered' = notes'
    /\ UNCHANGED <<filteredNotes, effectPending, showSearch,
                   searchFilters, sortBy, editingNote, isFormOpen, errors,
                   saves, call>>

\* the page is loaded again: a new NotesApp over the same localStorage
Reload ==
    /\ loadPhase # "pending"
    /\ ~effectPending
    /\ notes' = <<>>
    /\ rendered' = <<>>
    /\ filteredNotes' = <<>>
    /\ effectPending' = TRUE
    /\ isLoading' = TRUE
    /\ loadPhase' = "pending"
    /\ showSearch' = FALSE
    /\ searchFilters' = NoFilters
    /\ sortBy' = "newest"
    /\ editingNote' = <<>>
    /\ isFormOpen' = FALSE
    /\ errors' = <<>>
    /\ toast' = "none"
    /\ UNCHANGED <<now, store, saves, call>>

\* the filter/sort effect: runs after a render in which notes, searchFilters
\* or sortBy changed
FilterEffect ==
    /\ loadPhase # "pending"
    /\ effectPending
    /\ rendered = notes
    /\ filteredNotes' = displayed(notes, searchFilters, sortBy)
    /\ effectPending' = FALSE
    /\ UNCHANGED <<now, store, notes, rendered, isLoading, loadPhase,
                   showSearch, searchFilters, sortBy, editingNote, isFormOpen,
                   errors, toast, saves, call>>

\* a deferred render: the handlers now close over the current notes
Render ==
    /\ rendered # notes
    /\ rendered' = notes
    /\ UNCHANGED <<now, store, notes, filteredNotes, effectPending, isLoading,
                   loadPhase, showSearch, searchFilters, sortBy, editingNote,
                   isFormOpen, errors, toast, saves, call>>

(***************************************************************************)
(* Note handlers                                                           *)
(***************************************************************************)
\* what the user can type and select in NoteForm
\* the title and content typed: a blank title, an empty content, and a pair
\* that passes validation
FormTexts ==
    { [title |-> <<" ">>, content |-> <<"x">>],
      [title |-> <<"a", " ">>, content |-> <<>>],
      [title |-> <<"a", " ">>, content |-> <<"x">>] }
FormTags == {<<"T", ",", " ", "u">>}
FormPriorities == {"low"}
FormCategories == {"task"}

FormFavorites == {FALSE}
FormData ==
    { [title |-> text.title, content |-> text.content, tags |-> tags,
       priority |-> priority, category |-> category, isFavorite |-> favorite] :
         text \in FormTexts, tags \in FormTags, priority \in FormPriorities,
         category \in FormCategories, favorite \in FormFavorites }

\* the ids of the cards NotesList shows
CardIds == {filteredNotes[i].id : i \in DOMAIN filteredNotes}

handleCreateNote(sync) ==
    /\ Ready(sync)
    /\ ~isFormOpen
    /\ saves < MaxSaves
    /\ editingNote' = <<>>
    /\ isFormOpen' = TRUE
    /\ errors' = <<>>
    /\ UNCHANGED <<now, store, notes, rendered, filteredNotes, effectPending,
                   isLoading, loadPhase, showSearch, searchFilters, sortBy,
                   toast, saves, call>>

handleEditNote(i, sync) ==
    /\ Ready(sync)
    /\ ~isFormOpen
    /\ saves < MaxSaves
    /\ i \in DOMAIN filteredNotes
    /\ editingNote' = <<filteredNotes[i]>>
    /\ isFormOpen' = TRUE
    /\ errors' = <<>>
    /\ UNCHANGED <<now, store, notes, rendered, filteredNotes, effectPending,
                   isLoading, loadPhase, showSearch, searchFilters, sortBy,
                   toast, saves, call>>

\* onClose of NoteForm (Cancel)
handleClose(sync) ==
    /\ Ready(sync)
    /\ isFormOpen
    /\ isFormOpen' = FALSE
    /\ editingNote' = <<>>
    /\ errors' = <<>>
    /\ UNCHANGED <<now, store, notes, rendered, filteredNotes, effectPending,
                   isLoading, loadPhase, showSearch, searchFilters, sortBy,
                   toast, saves, call>>

\* the body of handleSaveNote: the store first, then the in-memory update
\* computed from the notes the handler closed over
saveNoteBody(note, writeOk) ==
    LET res == saveNote(store, note, writeOk)
    IN  /\ saves < MaxSaves
        /\ saves' = saves + 1
        /\ store' = res.store
        /\ IF res.ok
           THEN /\ notes' = updatedNotes(rendered, note)
                /\ effectPending' = TRUE
                /\ toast' = IF editingNote # <<>> THEN "Note Updated"
                                                  ELSE "Note Created"
           ELSE /\ toast' = "Error"
                /\ UNCHANGED <<notes, effectPending>>

\* savedNote stamping createdAt on every save
savedNoteFreshCreatedAt(note, formData, t, r) ==
    [id |-> IF note # <<>> THEN note[1].id ELSE generateNoteId(t, r),
     title |-> trim(formData.title),
     content |-> trim(formData.content),
     tags |-> parseTags(formData.tags),
     priority |-> formData.priority,
     category |-> formData.category,
     isFavorite |-> formData.isFavorite,
     createdAt |-> t,
     updatedAt |-> t]

\* savedNote with the two dates mixed up: createdAt refreshed, updatedAt kept
savedNoteDatesMixedUp(note, formData, t, r) ==
    [id |-> IF note # <<>> THEN note[1].id ELSE generateNoteId(t, r),
     title |-> trim(formData.title),
     content |-> trim(formData.content),
     tags |-> parseTags(formData.tags),
     priority |-> formData.priority,
     category |-> formData.category,
     isFavorite |-> formData.isFavorite,
     createdAt |-> t,
     updatedAt |-> IF note # <<>> THEN note[1].updatedAt ELSE t]

\* savedNote of NoteForm.handleSave
savedNote(note, formData, t, r) ==
    [id |-> IF note # <<>> THEN note[1].id ELSE generateNoteId(t, r),
     title |-> trim(formData.title),
     content |-> trim(formData.content),
     tags |-> parseTags(formData.tags),
     priority |-> formData.priority,
     category |-> formData.category,
     isFavorite |-> formData.isFavorite,
     createdAt |-> IF note # <<>> THEN note[1].createdAt ELSE t,
     updatedAt |-> t]

\* NoteForm.handleSave with the form's content, calling handleSaveNote and
\* onClose when the candidate is valid
handleSave(formData, r, writeOk, t, sync) ==
    /\ Ready(sync)
    /\ isFormOpen
    /\ LET validationErrors ==
               validateNote([formData EXCEPT !.tags = parseTags(formData.tags)])
           note == savedNote(editingNote, formData, t, r)
       IN  IF Len(validationErrors) > 0
           THEN /\ errors' = validationErrors
                /\ UNCHANGED <<now, store, notes, effectPending, toast,
                               saves, isFormOpen, editingNote>>
           ELSE /\ now' = t
                /\ saveNoteBody(note, writeOk)
                /\ isFormOpen' = FALSE
                /\ editingNote' = <<>>
                /\ errors' = <<>>
    /\ Commit(sync)
    /\ UNCHANGED <<filteredNotes, isLoading, loadPhase, showSearch,
                   searchFilters, sortBy, call>>

\* handleDeleteNote without the window.confirm of important notes
handleDeleteNoteUnconfirmed(id, confirmed, writeOk, sync) ==
    /\ Ready(sync)
    /\ ~isFormOpen
    /\ id \in CardIds
    /\ LET note == find(rendered, id)
           res == deleteNote(store, id, writeOk)
           OtherId(n) == n.id # id
       IN  IF note = <<>>
           THEN UNCHANGED <<store, notes, effectPending, toast>>
           ELSE IF res.ok
           THEN /\ store' = res.store
                /\ notes' = filter(rendered, OtherId)
                /\ effectPending' = TRUE
                /\ toast' = "Note Deleted"
           ELSE /\ toast' = "Error"
                /\ UNCHANGED <<store, notes, effectPending>>
    /\ Commit(sync)
    /\ UNCHANGED <<now, filteredNotes, isLoading, loadPhase, showSearch,
                   searchFilters, sortBy, editingNote, isFormOpen, errors,
                   saves, call>>

handleDeleteNote(id, confirmed, writeOk, sync) ==
    /\ Ready(sync)
    /\ ~isFormOpen
    /\ id \in CardIds
    /\ LET note == find(rendered, id)
           res == deleteNote(store, id, writeOk)
           OtherId(n) == n.id # id
       IN  IF note = <<>>
           THEN UNCHANGED <<store, notes, effectPending, toast>>
           ELSE IF (note[1].priority = "high" \/ note[1].isFavorite) /\ ~confirmed
           THEN UNCHANGED <<store, notes, effectPending, toast>>
           ELSE IF res.ok
           THEN /\ store' = res.store
                /\ notes' = filter(rendered, OtherId)
                /\ effectPending' = TRUE
                /\ toast' = "Note Deleted"
           ELSE /\ toast' = "Error"
                /\ UNCHANGED <<store, notes, effectPending>>
    /\ Commit(sync)
    /\ UNCHANGED <<now, filteredNotes, isLoading, loadPhase, showSearch,
                   searchFilters, sortBy, editingNote, isFormOpen, errors,
                   saves, call>>

handleToggleFavorite(id, writeOk, t, sync) ==
    /\ Ready(sync)
    /\ ~isFormOpen
    /\ id \in CardIds
    /\ LET note == find(rendered, id)
       IN  IF note = <<>>
           THEN UNCHANGED <<now, store, notes, effectPending, toast, saves>>
           ELSE /\ now' = t
                /\ saveNoteBody([note[1] EXCEPT
                                    !.isFavorite = ~note[1].isFavorite,
                                    !.updatedAt = t], writeOk)
    /\ Commit(sync)
    /\ UNCHANGED <<filteredNotes, isLoading, loadPhase, showSearch,
                   searchFilters, sortBy, editingNote, isFormOpen, errors,
                   call>>

(***************************************************************************)
(* Search panel (NotesApp handlers and the SearchAndFilter component)      *)
(***************************************************************************)
MaxTagFilters == 1

\* the partial updates the controls of the panel pass to updateFilters, here
\* those of the search box and of the favorites button
FilterUpdates ==
    { [query |-> <<"B">>], [query |-> <<>>],
      [isFavorite |-> <<TRUE>>], [isFavorite |-> <<>>] }

\* the tag buttons the user presses
TagInputs == { <<"u">> }

\* getUniqueTags, as the set of the tag buttons shown
getUniqueTags(ns) == UNION {Range(ns[i].tags) : i \in DOMAIN ns}

hasActiveFilters ==
    \/ searchFilters.priority # <<>>
    \/ searchFilters.category # <<>>
    \/ searchFilters.isFavorite # <<>>
    \/ (searchFilters.tags # <<>> /\ Len(searchFilters.tags[1]) > 0)

\* { ...filters, ...updates }
merge(filters, updates) ==
    [f \in DOMAIN filters |->
        IF f \in DOMAIN updates THEN updates[f] ELSE filters[f]]

\* setSearchFilters and setSortBy with the effect's dependency list lacking
\* searchFilters and sortBy
setPanelStateNoEffect(filters, option) ==
    /\ searchFilters' = filters
    /\ sortBy' = option
    /\ UNCHANGED <<now, store, notes, rendered, filteredNotes, effectPending,
                   isLoading, loadPhase, editingNote, isFormOpen, errors,
                   toast, saves, call>>

\* setSearchFilters and setSortBy: a new value re-runs the filter/sort effect
setPanelState(filters, option) ==
    /\ searchFilters' = filters
    /\ sortBy' = option
    /\ effectPending' = TRUE
    /\ UNCHANGED <<now, store, notes, rendered, filteredNotes, isLoading,
                   loadPhase, editingNote, isFormOpen, errors, toast, saves, call>>

handleToggleSearch(sync) ==
    /\ Ready(sync)
    /\ ~isFormOpen
    /\ showSearch' = ~showSearch
    /\ IF showSearch
       THEN setPanelState(NoFilters, sortBy)
       ELSE UNCHANGED <<now, store, notes, rendered, filteredNotes,
                        effectPending, isLoading, loadPhase, searchFilters,
                        sortBy, editingNote, isFormOpen, errors, toast, saves, call>>

\* handleCloseSearch hiding the panel without resetting the filters
handleCloseSearchKeepsFilters(sync) ==
    /\ Ready(sync)
    /\ ~isFormOpen
    /\ showSearch
    /\ showSearch' = FALSE
    /\ setPanelState(searchFilters, sortBy)

handleCloseSearch(sync) ==
    /\ Ready(sync)
    /\ ~isFormOpen
    /\ showSearch
    /\ showSearch' = FALSE
    /\ setPanelState(NoFilters, sortBy)

\* a handler of the rendered SearchAndFilter panel can run
PanelReady(sync) == Ready(sync) /\ ~isFormOpen /\ showSearch

updateFilters(updates, sync) ==
    /\ PanelReady(sync)
    /\ merge(searchFilters, updates) # searchFilters
    /\ setPanelState(merge(searchFilters, updates), sortBy)
    /\ UNCHANGED showSearch

addTagFilter(tag, sync) ==
    /\ PanelReady(sync)
    /\ tag \in getUniqueTags(rendered)
    /\ LET currentTags == IF searchFilters.tags = <<>> THEN <<>>
                          ELSE searchFilters.tags[1]
       IN  /\ tag \notin Range(currentTags)
           /\ Len(currentTags) < MaxTagFilters
           /\ setPanelState(merge(searchFilters,
                                  [tags |-> <<Append(currentTags, tag)>>]),
                            sortBy)
    /\ UNCHANGED showSearch

removeTagFilter(tag, sync) ==
    /\ PanelReady(sync)
    /\ LET currentTags == IF searchFilters.tags = <<>> THEN <<>>
                          ELSE searchFilters.tags[1]
           OtherTag(t) == t # tag
       IN  /\ tag \in Range(currentTags)
           /\ setPanelState(merge(searchFilters,
                                  [tags |-> <<filter(currentTags, OtherTag)>>]),
                            sortBy)
    /\ UNCHANGED showSearch

clearFilters(sync) ==
    /\ PanelReady(sync)
    /\ hasActiveFilters
    /\ setPanelState(NoFilters, sortBy)
    /\ UNCHANGED showSearch

\* onSortChange from the sort select
setSortBy(option, sync) ==
    /\ PanelReady(sync)
    /\ option # sortBy
    /\ setPanelState(searchFilters, option)
    /\ UNCHANGED showSearch

(***************************************************************************)
(* Specifications                                                          *)
(***************************************************************************)
AllIds == {generateNoteId(t, r) : t \in 0..MaxTime, r \in Rand}

\* the persisted collection, as the next load would read it
persistedNotes == getAllNotes(store)

IdsOf(ns) == {ns[i].id : i \in DOMAIN ns}

\* The Math.random draws of a form submitted at instant t.  Only the equality
\* of an id with the ids in use matters, so a draw is the suffix of an id in
\* use at t, or the least suffix not in use.
IdDraws(t) ==
    LET inUse == {r \in Rand :
                    generateNoteId(t, r) \in IdsOf(notes) \cup IdsOf(persistedNotes)}
        free == Rand \ inUse
    IN  inUse \cup {r \in free : \A q \in free : r <= q}

Load ==
    \E avail \in BOOLEAN, d \in SeedDraws, failAt \in 0..3, t \in ClockReadings :
        LoadNotes(avail, d, failAt, t)

OpenCreate == handleCreateNote(TRUE)

OpenEdit == \E i \in DOMAIN filteredNotes : handleEditNote(i, TRUE)

CloseForm == handleClose(TRUE)

SubmitForm ==
    \E fd \in FormData, writeOk \in BOOLEAN, t \in ClockReadings :
        \E r \in IdDraws(t) : handleSave(fd, r, writeOk, t, TRUE)

Delete ==
    \E id \in AllIds, confirmed \in BOOLEAN, writeOk \in BOOLEAN :
        handleDeleteNote(id, confirmed, writeOk, TRUE)

ToggleFavorite ==
    \E id \in AllIds, writeOk \in BOOLEAN, t \in ClockReadings :
        handleToggleFavorite(id, writeOk, t, TRUE)

\* The note life cycle: every handler runs against the latest render, and the
\* search panel stays closed, so that every note has a card.
Next ==
    \/ Load
    \/ Reload
    \/ FilterEffect
    \/ OpenCreate
    \/ OpenEdit
    \/ CloseForm
    \/ SubmitForm
    \/ Delete
    \/ ToggleFavorite

Spec == Init /\ [][Next]_vars

\* The load effect is run by React after the first render of every mount.
FairSpec == Spec /\ WF_vars(Load)

ToggleSearch == handleToggleSearch(TRUE)

CloseSearch == handleCloseSearch(TRUE)

UpdateFilters == \E updates \in FilterUpdates : updateFilters(updates, TRUE)

AddTag == \E tag \in TagInputs : addTagFilter(tag, TRUE)

RemoveTag == \E tag \in TagInputs : removeTagFilter(tag, TRUE)

ClearFilters == clearFilters(TRUE)

SortChange == \E option \in SortOptions : setSortBy(option, TRUE)

\* the first load of a working store, at the instant the session starts and
\* with three distinct sample ids
CleanLoad == LoadNotes(TRUE, [i \in 1..3 |-> i], 0, now)

PanelDelete ==
    \E id \in AllIds : handleDeleteNote(id, TRUE, TRUE, TRUE)

PanelToggleFavorite ==
    \E id \in AllIds, t \in ClockReadings :
        handleToggleFavorite(id, TRUE, t, TRUE)

\* One session with the search panel: the notes change by deletion and by
\* the favorite toggle while the user searches, filters and sorts.
PanelNext ==
    \/ CleanLoad
    \/ FilterEffect
    \/ PanelDelete
    \/ PanelToggleFavorite
    \/ ToggleSearch
    \/ CloseSearch
    \/ UpdateFilters
    \/ AddTag
    \/ RemoveTag
    \/ ClearFilters
    \/ SortChange

PanelSpec == Init /\ [][PanelNext]_vars

StaleDelete ==
    \E id \in AllIds, confirmed \in BOOLEAN, writeOk \in BOOLEAN :
        handleDeleteNote(id, confirmed, writeOk, FALSE)

StaleToggleFavorite ==
    \E id \in AllIds, writeOk \in BOOLEAN, t \in ClockReadings :
        handleToggleFavorite(id, writeOk, t, FALSE)

\* One session in which the render that follows a state update is deferred:
\* a second handler can run with the notes the first one closed over.
StaleNext ==
    \/ CleanLoad
    \/ FilterEffect
    \/ Render
    \/ StaleDelete
    \/ StaleToggleFavorite

StaleSpec == Init /\ [][StaleNext]_vars

SkewLoad ==
    \E t \in AnyInstant : LoadNotes(TRUE, [i \in 1..3 |-> i], 0, t)

SkewSubmitForm ==
    \E fd \in FormData, t \in AnyInstant :
        \E r \in IdDraws(t) : handleSave(fd, r, TRUE, t, TRUE)

SkewToggleFavorite ==
    \E id \in AllIds, t \in AnyInstant :
        handleToggleFavorite(id, TRUE, t, TRUE)

\* The note life cycle over a store whose writes succeed, with a system
\* clock that can be set back between two readings.
SkewNext ==
    \/ SkewLoad
    \/ Reload
    \/ FilterEffect
    \/ OpenCreate
    \/ OpenEdit
    \/ CloseForm
    \/ SkewSubmitForm
    \/ PanelDelete
    \/ SkewToggleFavorite

SkewSpec == Init /\ [][SkewNext]_vars

\* One session with the search panel in which the effects React has scheduled
\* do run: the load effect after mounting, the filter/sort effect after a
\* render that changed one of its dependencies.
FairPanelSpec ==
    PanelSpec /\ WF_vars(CleanLoad) /\ WF_vars(FilterEffect)

(***************************************************************************)
(* Query pipeline (noteUtils called on the collection, as NotesApp and     *)
(* NotesHeader call them)                                                  *)
(***************************************************************************)
MaxNotes == 3

\* the instant at which the pipeline is exercised
Today == 10 * DayMs

\* the notes the collections under test are made of (ids are given by
\* position): titles and contents with and without a space, tags in both
\* cases, every priority, both favorite values, and creation instants today,
\* yesterday, ten days ago, seven days ago and one millisecond later
TestNotes ==
    { [title |-> <<"a">>, content |-> <<"x">>, tags |-> <<>>,
       priority |-> "high", category |-> "bug", isFavorite |-> TRUE,
       createdAt |-> Today],
      [title |-> <<"B">>, content |-> <<"y">>, tags |-> << <<"f", "e">> >>,
       priority |-> "low", category |-> "task", isFavorite |-> FALSE,
       createdAt |-> Today - DayMs],
      [title |-> <<"b">>, content |-> <<"a", " ", "x">>,
       tags |-> << <<"b", "e">>, <<"F", "e">> >>,
       priority |-> "medium", category |-> "learning", isFavorite |-> TRUE,
       createdAt |-> Today - 10 * DayMs],
      [title |-> <<"a">>, content |-> <<"z">>, tags |-> << <<"b", "e">> >>,
       priority |-> "high", category |-> "task", isFavorite |-> FALSE,
       createdAt |-> Today - 7 * DayMs],
      [title |-> <<"c">>, content |-> <<"x">>, tags |-> <<>>,
       priority |-> "medium", category |-> "bug", isFavorite |-> FALSE,
       createdAt |-> (Today - 7 * DayMs) + 1] }

\* a note of the collection under test: the i-th one, never edited
TestNote(fields, i) ==
    [id |-> generateNoteId(0, i), title |-> fields.title,
     content |-> fields.content, tags |-> fields.tags,
     priority |-> fields.priority, category |-> fields.category,
     isFavorite |-> fields.isFavorite, createdAt |-> fields.createdAt,
     updatedAt |-> fields.createdAt]

TestCollections ==
    UNION { { [i \in 1..n |-> TestNote(pick[i], i)] : pick \in [1..n -> TestNotes] } :
            n \in 0..MaxNotes }

\* the values of each field of SearchFilters: absent (or empty), and present
TestQueries == { <<"a", "x">>, <<"a", " ", "x">>, <<" ", " ">>, <<"A">> }
TestFavorites == { <<TRUE>>, <<FALSE>> }
TestTagLists == { << <<>> >>, << << <<"F">> >> >>,
                  << << <<"z">>, <<"b", "e">> >> >> }

\* the filter sets with at most one field present
OneFieldFilters ==
    {NoFilters}
    \cup { [NoFilters EXCEPT !.query = q] : q \in TestQueries }
    \cup { [NoFilters EXCEPT !.priority = <<"high">>],
           [NoFilters EXCEPT !.category = <<"bug">>] }
    \cup { [NoFilters EXCEPT !.isFavorite = f] : f \in TestFavorites }
    \cup { [NoFilters EXCEPT !.tags = t] : t \in TestTagLists }

\* the filter sets with at most two fields present
TestFilters ==
    { merge(f, [k \in {field} |-> g[field]]) :
        f \in OneFieldFilters, g \in OneFieldFilters, field \in DOMAIN NoFilters }

PipelineInit ==
    /\ now = Today
    /\ store = NoEntry
    /\ notes \in TestCollections
    /\ rendered = notes
    /\ filteredNotes = <<>>
    /\ effectPending = FALSE
    /\ isLoading = FALSE
    /\ loadPhase = "ok"
    /\ showSearch = FALSE
    /\ searchFilters = NoFilters
    /\ sortBy = "newest"
    /\ editingNote = <<>>
    /\ isFormOpen = FALSE
    /\ errors = <<>>
    /\ toast = "none"
    /\ saves = 0
    /\ call = NoCall

\* filterNotes(notes, filters), called once on each collection with each
\* filter set: Array.prototype.filter leaves notes alone
FilterCall ==
    \E filters \in TestFilters :
        /\ call = NoCall
        /\ call' = [fn |-> "filterNotes", input |-> notes, filters |-> filters,
                    result |-> filterNotes(notes, filters)]
        /\ UNCHANGED <<now, store, notes, rendered, filteredNotes,
                       effectPending, isLoading, loadPhase, showSearch,
                       searchFilters, sortBy, editingNote, isFormOpen, errors,
                       toast, saves>>

FilterSpec == PipelineInit /\ [][FilterCall]_vars

\* sortNotes sorting the array it is given instead of a copy
sortNotesInPlace(ns, option) ==
    [notes |-> sortNotes(ns, option), returned |-> sortNotes(ns, option)]

\* sortNotes called on an array: Array.prototype.sort sorts in place the copy
\* sortedNotes = [...notes] and returns it; `notes` is the argument array
\* after the call
sortNotesOnArray(ns, option) ==
    [notes |-> ns, returned |-> sortNotes(ns, option)]

\* sortNotes(notes, option) called on the collection
SortCall ==
    \E option \in SortOptions :
        LET outcome == sortNotesOnArray(notes, option)
        IN  /\ notes' = outcome.notes
            /\ call' = [fn |-> "sortNotes", of |-> "notes", input |-> notes,
                        option |-> option, before |-> "none",
                        result |-> outcome.returned,
                        original |-> IF call = NoCall THEN notes
                                     ELSE call.original]
            /\ UNCHANGED <<now, store, rendered, filteredNotes, effectPending,
                           isLoading, loadPhase, showSearch, searchFilters,
                           sortBy, editingNote, isFormOpen, errors, toast,
                           saves>>

\* sortNotes(result, option) called on the array an earlier sortNotes(notes,
\* before) returned
SortAgain ==
    \E option \in SortOptions :
        /\ call # NoCall
        /\ call.of = "notes"
        /\ call' = [fn |-> "sortNotes", of |-> "result", input |-> call.result,
                    option |-> option, before |-> call.option,
                    result |-> sortNotesOnArray(call.result, option).returned,
                    original |-> call.original]
        /\ UNCHANGED <<now, store, notes, rendered, filteredNotes,
                       effectPending, isLoading, loadPhase, showSearch,
                       searchFilters, sortBy, editingNote, isFormOpen, errors,
                       toast, saves>>

SortNext ==
    \/ SortCall
    \/ SortAgain

SortSpec == PipelineInit /\ [][SortNext]_vars

\* the change of the local zone's offset from UTC over the last seven
\* calendar days (offset now minus offset then): none, or the hour of a
\* daylight-saving switch in either direction
ZoneShifts == {0 - HourMs, 0, HourMs}

\* weekAgo = new Date() read at t; weekAgo.setDate(weekAgo.getDate() - 7):
\* the same local wall-clock time seven calendar days earlier
weekAgo(t, zoneShift) == (t - 7 * DayMs) + zoneShift

RECURSIVE countBy(_, _, _)
\* notes.reduce((acc, note) => { acc[note[field]] = (acc[note[field]] || 0)
\* + 1; return acc }, {}): acc has a key for each value met so far
countBy(ns, field, acc) ==
    IF ns = <<>> THEN acc
    ELSE LET key == Head(ns)[field]
             seen == IF key \in DOMAIN acc THEN acc[key] ELSE 0
         IN  countBy(Tail(ns), field,
                     [k \in DOMAIN acc \cup {key} |->
                         IF k = key THEN seen + 1 ELSE acc[k]])

\* getNoteStats counting a note created exactly at weekAgo as recent
getNoteStatsInclusive(ns, readings, zoneShift) ==
    [total |-> Len(ns),
     favorites |-> Cardinality({i \in DOMAIN ns : ns[i].isFavorite}),
     priorities |-> countBy(ns, "priority", <<>>),
     categories |-> countBy(ns, "category", <<>>),
     recentNotes |->
        Cardinality({i \in DOMAIN ns :
                        ns[i].createdAt >= weekAgo(readings[i], zoneShift)}),
     tags |-> Cardinality(getUniqueTags(ns))]

\* getNoteStats(notes): readings[i] is what new Date() returns inside the
\* filter callback for note i
getNoteStats(ns, readings, zoneShift) ==
    [total |-> Len(ns),
     favorites |-> Cardinality({i \in DOMAIN ns : ns[i].isFavorite}),
     priorities |-> countBy(ns, "priority", <<>>),
     categories |-> countBy(ns, "category", <<>>),
     recentNotes |->
        Cardinality({i \in DOMAIN ns :
                        ns[i].createdAt > weekAgo(readings[i], zoneShift)}),
     tags |-> Cardinality(getUniqueTags(ns))]

\* getNoteStats(notes) called by NotesHeader: the clock is read once for each
\* note and may move on by a millisecond after note number tickAt
StatsCall ==
    \E tickAt \in 0..Len(notes), zoneShift \in ZoneShifts :
        LET readings == [i \in DOMAIN notes |->
                            IF i > tickAt THEN now + 1 ELSE now]
        IN  /\ tickAt < Len(notes) => now + 1 <= Today + MaxTime
            /\ now' = IF notes = <<>> THEN now ELSE readings[Len(notes)]
            /\ call' = [fn |-> "getNoteStats", input |-> notes, at |-> now,
                        readings |-> readings, zoneShift |-> zoneShift,
                        result |-> getNoteStats(notes, readings, zoneShift)]
            /\ UNCHANGED <<store, notes, rendered, filteredNotes,
                           effectPending, isLoading, loadPhase, showSearch,
                           searchFilters, sortBy, editingNote, isFormOpen,
                           errors, toast, saves>>

StatsSpec == PipelineInit /\ [][StatsCall]_vars

(***************************************************************************)
(* Note lifecycle helpers called on their own                              *)
(***************************************************************************)
\* the candidates handed to validateNote: titles and contents that are
\* empty, white space only, plain and padded; priorities and categories that
\* are enumeration values, undefined, empty, and a text outside the
\* enumeration
Candidates ==
    { [title |-> title, content |-> content, priority |-> priority,
       category |-> category] :
         title \in { <<>>, <<" ">>, <<"a">>, <<" ", "a", " ">> },
         content \in { <<>>, <<" ", " ">>, <<"x">> },
         priority \in {"high", "low", Undefined, "", "urgent"},
         category \in {"bug", "feedback", Undefined, "", "chore"} }

\* validateNote(candidate)
ValidateCall ==
    \E candidate \in Candidates :
        /\ call' = [fn |-> "validateNote", input |-> candidate,
                    result |-> validateNote(candidate)]
        /\ UNCHANGED <<now, store, notes, rendered, filteredNotes,
                       effectPending, isLoading, loadPhase, showSearch,
                       searchFilters, sortBy, editingNote, isFormOpen, errors,
                       toast, saves>>

ValidateSpec == Init /\ [][ValidateCall]_vars

MaxTagsInput == 4

\* what can be typed in the tags field: every text of at most MaxTagsInput
\* characters made of an upper-case letter, a lower-case letter, a comma and
\* a space
TagsInputs ==
    UNION { [1..n -> {"B", "u", ",", " "}] : n \in 0..MaxTagsInput }

\* parseTags(tagsString)
ParseTagsCall ==
    \E tagsString \in TagsInputs :
        /\ call' = [fn |-> "parseTags", input |-> tagsString,
                    result |-> parseTags(tagsString)]
        /\ UNCHANGED <<now, store, notes, rendered, filteredNotes,
                       effectPending, isLoading, loadPhase, showSearch,
                       searchFilters, sortBy, editingNote, isFormOpen, errors,
                       toast, saves>>

ParseTagsSpec == Init /\ [][ParseTagsCall]_vars

\* the collections written as a whole: at most two notes, never edited or
\* edited a minute, a second and a millisecond after creation, created at
\* the epoch, on the last millisecond of a day, and within a later day
StoredCollections ==
    LET StoredNotes ==
          { [id |-> generateNoteId(createdAt, 1), title |-> <<"a">>,
             content |-> <<"x", " ", "y">>, tags |-> tags,
             priority |-> "high", category |-> "bug",
             isFavorite |-> tags # <<>>, createdAt |-> createdAt,
             updatedAt |-> IF tags = <<>> THEN createdAt
                           ELSE createdAt + 61001] :
               createdAt \in {0, DayMs - 1, 10 * DayMs + 3 * HourMs + 5},
               tags \in { <<>>, << <<"b", "e">>, <<"f">> >> } }
    IN  UNION { [1..n -> StoredNotes] : n \in 0..2 }

\* noteStorage.importNotes(written)
ImportCall ==
    /\ call.fn # "importNotes"
    /\ \E written \in StoredCollections, writeOk \in BOOLEAN :
        \E result \in {importNotes(store, written, writeOk)} :
            /\ store' = result.store
            /\ call' = [fn |-> "importNotes", input |-> written,
                        ok |-> result.ok]
    /\ UNCHANGED <<now, notes, rendered, filteredNotes, effectPending,
                   isLoading, loadPhase, showSearch, searchFilters, sortBy,
                   editingNote, isFormOpen, errors, toast, saves>>

\* noteStorage.getAllNotes() after an importNotes
ReadCall ==
    /\ call.fn = "importNotes"
    /\ call' = [fn |-> "getAllNotes", input |-> call.input, ok |-> call.ok,
                result |-> getAllNotes(store)]
    /\ UNCHANGED <<now, store, notes, rendered, filteredNotes, effectPending,
                   isLoading, loadPhase, showSearch, searchFilters, sortBy,
                   editingNote, isFormOpen, errors, toast, saves>>

StorageSpec == Init /\ [][ImportCall \/ ReadCall]_vars

(***************************************************************************)
(* Properties                                                              *)
(***************************************************************************)
\* the form's content passes validateNote
ValidForm(fd) ==
    validateNote([fd EXCEPT !.tags = parseTags(fd.tags)]) = <<>>

\* C1: after a successful load and any sequence of create, edit, delete and
\* toggle-favorite actions, the persisted collection equals the in-memory
\* collection: the same notes, with the same field values, in the same order.
\* (An action that ends with a storage error changes neither collection, so
\* the equality is stated of every state after a successful load.)
C1_PersistedEqualsInMemory ==
    loadPhase = "ok" => persistedNotes = notes

ValidForms == {fd \in FormData : ValidForm(fd)}

\* a step of a handler whose storage write raises an error (the instant the
\* handler read from the clock is the step's now'; a submission that reaches
\* handleSaveNote closes the form)
C3_WriteFails ==
    \/ /\ isFormOpen
       /\ ~isFormOpen'
       /\ saves' # saves
       /\ \E fd \in ValidForms, r \in Rand :
             handleSave(fd, r, FALSE, now', TRUE)
    \/ /\ ~isFormOpen
       /\ \/ \E id \in CardIds : handleDeleteNote(id, TRUE, FALSE, TRUE)
          \/ \E id \in CardIds : handleToggleFavorite(id, FALSE, now', TRUE)

\* C3: when the storage write inside saveNote or deleteNote raises an error,
\* the store operation signals the failure to its caller, the handler reports
\* an error to the user, and the in-memory and the persisted collection are
\* left as they were before the action.
C3_FailedWriteLeavesBothUnchanged ==
    [][ C3_WriteFails =>
          /\ \A i \in DOMAIN notes :
                /\ ~saveNote(store, notes[i], FALSE).ok
                /\ ~deleteNote(store, notes[i].id, FALSE).ok
          /\ toast' = "Error"
          /\ notes' = notes
          /\ store' = store ]_vars

\* C3 witness: an error was reported over three notes, kept in both collections
C3_Witness ==
    /\ toast = "Error"
    /\ Len(notes) = 3
    /\ persistedNotes = notes

\* C4: seeding is one-time: a load of a store that the application has
\* written before and that the user has emptied (the entry is there, parses,
\* and holds no note) creates no sample notes, in memory or in the store.
C4_SeedingIsOneTime ==
    [][ ( /\ loadPhase = "pending"
          /\ store.present
          /\ ~store.corrupt
          /\ store.data = <<>>
          /\ loadPhase' # "pending" )
        => (notes' = <<>> /\ getAllNotes(store') = <<>>) ]_vars

\* C5: a completed handleDeleteNote(id) leaves no note with that id in the
\* in-memory or the persisted collection, and every other note in both,
\* unchanged and in the same relative order.
C5_DeleteRemovesOnlyThatNote ==
    [][ \A id \in CardIds :
          handleDeleteNote(id, TRUE, TRUE, TRUE) =>
            /\ \A i \in DOMAIN notes' : notes'[i].id # id
            /\ \A i \in DOMAIN getAllNotes(store') :
                  getAllNotes(store')[i].id # id
            /\ notes' = SelectSeq(notes, LAMBDA n : n.id # id)
            /\ getAllNotes(store') =
                  SelectSeq(persistedNotes, LAMBDA n : n.id # id) ]_vars

\* C5 witness: a note was deleted and two remain in both collections
C5_Witness ==
    /\ toast = "Note Deleted"
    /\ Len(notes) = 2
    /\ Len(persistedNotes) = 2

\* every note of either collection
allNotes == Range(notes) \cup Range(persistedNotes)

\* a completed edit (the form saved over editingNote) or a completed
\* favorite toggle of the note with this id, at the instant now'
C6_EditOrToggle(id) ==
    \/ /\ isFormOpen
       /\ ~isFormOpen'
       /\ toast' = "Note Updated"
       /\ editingNote # <<>>
       /\ editingNote[1].id = id
       /\ \E fd \in ValidForms, r \in Rand :
             handleSave(fd, r, TRUE, now', TRUE)
    \/ /\ ~isFormOpen
       /\ saves' # saves
       /\ handleToggleFavorite(id, TRUE, now', TRUE)

C7_CreatedBeforeUpdated ==
    \A n \in allNotes : n.createdAt <= n.updatedAt

\* no note was created after the last clock reading
C7_CreatedBeforeNow ==
    \A n \in allNotes : n.createdAt <= now

\* C7 as amended: while no clock reading is earlier than the one before it,
\* every note of the in-memory and of the persisted collection keeps
\* createdAt <= updatedAt.
C7_CreatedBeforeUpdatedWhileClockRunsForward ==
    [][ (C7_CreatedBeforeUpdated /\ C7_CreatedBeforeNow /\ now' >= now)
        => (C7_CreatedBeforeUpdated' /\ C7_CreatedBeforeNow') ]_vars

\* C7 witness: the clock ran forward and a note was saved after its creation
C7_Witness ==
    /\ now = MaxTime
    /\ C7_CreatedBeforeUpdated
    /\ \E n \in Range(notes) \cap Range(persistedNotes) :
          n.createdAt < n.updatedAt

\* C8: no two notes of the in-memory collection share an id, and no two notes
\* of the persisted collection share an id.
C8_IdsUnique ==
    /\ \A i, j \in DOMAIN notes : notes[i].id = notes[j].id => i = j
    /\ \A i, j \in DOMAIN persistedNotes :
          persistedNotes[i].id = persistedNotes[j].id => i = j

\* the forms whose title or content is empty after trimming
BlankForms ==
    {fd \in FormData : trim(fd.title) = <<>> \/ trim(fd.content) = <<>>}

\* C9: submitting a form whose title or content is empty after trimming does
\* not call handleSaveNote or the store: both collections, the count of
\* saves and the toast stay as they were, the form stays open, and a
\* non-empty list of error messages is shown.  (Such a submission reads no
\* clock, so the instant handed to the handler is the unchanged now'.)
C9_InvalidFormNeverReachesStore ==
    [][ ( /\ isFormOpen
          /\ \E fd \in BlankForms, r \in Rand, writeOk \in BOOLEAN :
                handleSave(fd, r, writeOk, now', TRUE) )
        => /\ store' = store
           /\ notes' = notes
           /\ saves' = saves
           /\ toast' = toast
           /\ isFormOpen'
           /\ errors' # <<>> ]_vars

\* C9 witness: the form shows errors over collections that agree
C9_Witness ==
    /\ isFormOpen
    /\ errors # <<>>
    /\ notes # <<>>
    /\ persistedNotes = notes

\* C10 as claimed, its second half: the displayed list only ever contains
\* notes of the in-memory collection.
C10_DisplayedOnlyInMemoryNotes ==
    \A i \in DOMAIN filteredNotes : filteredNotes[i] \in Range(notes)

\* C10 as amended: whenever the filter/sort effect is not pending the
\* displayed list is sort(filter(notes, filters), sortBy) for the current
\* values, and a pending effect does run.
C10_DisplayedRederived ==
    /\ [](~effectPending =>
            filteredNotes = displayed(notes, searchFilters, sortBy))
    /\ (effectPending ~> ~effectPending)

\* C10 witness: a filter is active and the list shows some of the notes
C10_Witness ==
    /\ ~effectPending
    /\ searchFilters # NoFilters
    /\ filteredNotes # <<>>
    /\ Len(filteredNotes) < Len(notes)

\* two strings equal up to the case of their letters
SameIgnoringCase(a, b) ==
    /\ Len(a) = Len(b)
    /\ \A i \in DOMAIN a : LowerChar(a[i]) = LowerChar(b[i])

\* part occurs in text, up to the case of the letters
ContainsIgnoringCase(text, part) ==
    \E i \in 1..(Len(text) - Len(part) + 1) :
        SameIgnoringCase(SubSeq(text, i, i + Len(part) - 1), part)

\* the fields of a note the text query is matched against
SearchableFields(note) ==
    <<note.title, note.content>> \o note.tags
        \o <<EnumText(note.category), EnumText(note.priority)>>

\* the fields put together with a single space between them
JoinedText(note) == join(SearchableFields(note), <<" ">>)

\* the fields put together with nothing between them
PlainText(note) == join(SearchableFields(note), <<>>)

\* r is a subsequence of s, for an s without repeated elements: r is s
\* restricted to the members of r
IsSubsequence(r, s) ==
    /\ Range(r) \subseteq Range(s)
    /\ r = SelectSeq(s, LAMBDA n : n \in Range(r))

\* at least one requested tag occurs, up to case, in at least one note tag
SomeTagMatches(note, requested) ==
    \E i \in DOMAIN requested : \E j \in DOMAIN note.tags :
        ContainsIgnoringCase(note.tags[j], requested[i])

\* C11: filter(N, F) is a subsequence of N in the same relative order, and
\* every retained note satisfies every active field of F: the query (when not
\* empty after trimming) occurs up to case in the note's searchable text, the
\* priority, category and favorite value are equal to the requested ones, and
\* a non-empty tag list has a tag matching one of the note's.
C11_FilterIsSubsequenceOfMatches ==
    call.fn = "filterNotes" =>
        /\ IsSubsequence(call.result, call.input)
        /\ \A n \in Range(call.result) :
              /\ trim(call.filters.query) # <<>>
                    => ContainsIgnoringCase(JoinedText(n), call.filters.query)
              /\ call.filters.priority # <<>>
                    => n.priority = call.filters.priority[1]
              /\ call.filters.category # <<>>
                    => n.category = call.filters.category[1]
              /\ call.filters.isFavorite # <<>>
                    => n.isFavorite = call.filters.isFavorite[1]
              /\ (call.filters.tags # <<>> /\ call.filters.tags[1] # <<>>)
                    => SomeTagMatches(n, call.filters.tags[1])

\* C11 witness: a filter set with two active fields retained the first and
\* the last of three notes
C11_Witness ==
    /\ call.fn = "filterNotes"
    /\ call.filters.priority # <<>>
    /\ call.filters.isFavorite # <<>>
    /\ Len(call.input) = 3
    /\ call.result = <<call.input[1], call.input[3]>>

\* no field of the filter set is active: the query is absent, empty or
\* white space only, the tag list is absent or empty, and priority, category
\* and isFavorite are absent
NoActiveField(filters) ==
    /\ trim(filters.query) = <<>>
    /\ filters.priority = <<>>
    /\ filters.category = <<>>
    /\ filters.isFavorite = <<>>
    /\ (filters.tags = <<>> \/ filters.tags[1] = <<>>)

\* C12: filter(N, F) returns N unchanged (same members, same order) whenever
\* F has no active field, a query that is empty after trimming and an empty
\* tag list counting as inactive.
C12_NoActiveFieldReturnsAll ==
    (call.fn = "filterNotes" /\ NoActiveField(call.filters))
        => call.result = call.input

\* the only active field of the filter set is a non-empty text query
OnlyQueryActive(filters) ==
    /\ filters.query # <<>>
    /\ filters.priority = <<>>
    /\ filters.category = <<>>
    /\ filters.isFavorite = <<>>
    /\ (filters.tags = <<>> \/ filters.tags[1] = <<>>)

\* C13 as claimed: with only a non-empty text query active, a note is
\* retained if and only if the lower-cased query is a substring of the
\* lower-cased concatenation of title, content, tags, category identifier and
\* priority identifier.
C13_QueryMatchesConcatenation ==
    (call.fn = "filterNotes" /\ OnlyQueryActive(call.filters)) =>
        \A n \in Range(call.input) :
            n \in Range(call.result)
                <=> includes(toLowerCase(PlainText(n)),
                             toLowerCase(call.filters.query))

\* C13 as amended: with only a non-empty text query active, a note is
\* retained if and only if the lower-cased query is a substring of the
\* lower-cased text made of title, content, tags, category identifier and
\* priority identifier joined by single spaces.
C13_QueryMatchesSpaceJoinedText ==
    (call.fn = "filterNotes" /\ OnlyQueryActive(call.filters)) =>
        \A n \in Range(call.input) :
            n \in Range(call.result)
                <=> includes(toLowerCase(JoinedText(n)),
                             toLowerCase(call.filters.query))

\* C13 witness: an upper-case query retained a note for a lower-case letter
\* of its title and dropped a note without that letter
C13_Witness ==
    /\ call.fn = "filterNotes"
    /\ OnlyQueryActive(call.filters)
    /\ call.filters.query = <<"A">>
    /\ \E n \in Range(call.result) : n.title = <<"a">>
    /\ Len(call.result) < Len(call.input)

\* the only active field of the filter set is a non-empty tag list
OnlyTagsActive(filters) ==
    /\ filters.query = <<>>
    /\ filters.priority = <<>>
    /\ filters.category = <<>>
    /\ filters.isFavorite = <<>>
    /\ filters.tags # <<>>
    /\ filters.tags[1] # <<>>

\* C14: with a non-empty tag filter active, a note is retained if and only
\* if at least one requested tag is a case-insensitive substring of at least
\* one of the note's tags; a note with no tags is never retained.
C14_TagFilterIsSubstringOr ==
    (call.fn = "filterNotes" /\ OnlyTagsActive(call.filters)) =>
        \A n \in Range(call.input) :
            /\ n \in Range(call.result)
                  <=> SomeTagMatches(n, call.filters.tags[1])
            /\ n.tags = <<>> => n \notin Range(call.result)

\* C14 witness: the requested tag "F" retained a note tagged "fe" and dropped
\* a note tagged "be" and a note without tags
C14_Witness ==
    /\ call.fn = "filterNotes"
    /\ OnlyTagsActive(call.filters)
    /\ call.filters.tags[1] = << <<"F">> >>
    /\ \E n \in Range(call.result) : n.tags = << <<"f", "e">> >>
    /\ \E n \in Range(call.input) \ Range(call.result) :
          n.tags = << <<"b", "e">> >>
    /\ \E n \in Range(call.input) \ Range(call.result) : n.tags = <<>>

\* no field other than isFavorite is active
OnlyFavoriteConsidered(filters) ==
    /\ filters.query = <<>>
    /\ filters.priority = <<>>
    /\ filters.category = <<>>
    /\ (filters.tags = <<>> \/ filters.tags[1] = <<>>)

\* C15: the favorite filter distinguishes absent from false: isFavorite=true
\* retains exactly the notes with isFavorite=true, isFavorite=false exactly
\* those with isFavorite=false, and an absent isFavorite retains every note.
C15_FavoriteFilterIsThreeValued ==
    (call.fn = "filterNotes" /\ OnlyFavoriteConsidered(call.filters)) =>
        call.result =
            IF call.filters.isFavorite = <<>> THEN call.input
            ELSE SelectSeq(call.input,
                           LAMBDA n : n.isFavorite = call.filters.isFavorite[1])

\* C15 witness: isFavorite=false retained the one note of three that is not
\* a favorite
C15_Witness ==
    /\ call.fn = "filterNotes"
    /\ OnlyFavoriteConsidered(call.filters)
    /\ call.filters.isFavorite = <<FALSE>>
    /\ Len(call.input) = 3
    /\ Len(call.result) = 1
    /\ ~call.result[1].isFavorite

\* the number of positions of s that hold x
Occurrences(s, x) == Cardinality({i \in DOMAIN s : s[i] = x})

\* r holds the elements of s, each as often as s does
IsPermutation(r, s) ==
    /\ Len(r) = Len(s)
    /\ \A x \in Range(r) \cup Range(s) : Occurrences(r, x) = Occurrences(s, x)

\* C16: sort(N, option) never mutates N: after every call the collection has
\* the elements it had at first, in the same order; the result is a
\* permutation of N; and the result of sorting N is the one a first call
\* with that option gives, whatever calls were made before.
C16_SortLeavesInputAlone ==
    (call.fn = "sortNotes" /\ call.of = "notes") =>
        /\ notes = call.original
        /\ call.input = call.original
        /\ IsPermutation(call.result, call.original)
        /\ call.result = sortNotesOnArray(call.original, call.option).returned

\* C16 witness: a collection of three notes that is not in title order was
\* sorted by title and is still in its first order
C16_Witness ==
    /\ call.fn = "sortNotes"
    /\ call.of = "notes"
    /\ call.option = "title"
    /\ Len(notes) = 3
    /\ call.result # notes
    /\ notes = call.original

\* the position of x in a sequence that holds it once
PositionIn(s, x) == CHOOSE i \in DOMAIN s : s[i] = x

\* C17: sort(N, priority) puts every high note before every medium note and
\* every medium note before every low note, and is stable: two notes of equal
\* priority keep their relative input order.
C17_PrioritySortIsDescendingAndStable ==
    (call.fn = "sortNotes" /\ call.option = "priority") =>
        /\ \A i, j \in DOMAIN call.result :
              i < j =>
                /\ call.result[j].priority = "high"
                      => call.result[i].priority = "high"
                /\ call.result[j].priority = "medium"
                      => call.result[i].priority # "low"
        /\ \A i, j \in DOMAIN call.input :
              (i < j /\ call.input[i].priority = call.input[j].priority)
                => PositionIn(call.result, call.input[i])
                      < PositionIn(call.result, call.input[j])

\* C17 witness: a medium note followed by two high notes was sorted: the two
\* high notes come first, in their input order
C17_Witness ==
    /\ call.fn = "sortNotes"
    /\ call.option = "priority"
    /\ Len(call.input) = 3
    /\ call.input[1].priority = "medium"
    /\ call.input[2].priority = "high"
    /\ call.input[3].priority = "high"
    /\ call.result = <<call.input[2], call.input[3], call.input[1]>>

\* the createdAt timestamps of a sequence of notes are pairwise distinct
DistinctTimestamps(s) ==
    \A i, j \in DOMAIN s : s[i].createdAt = s[j].createdAt => i = j

\* the sequence in reverse order
Reverse(s) == [i \in DOMAIN s |-> s[Len(s) + 1 - i]]

\* C18: newest is descending by createdAt, oldest is ascending by createdAt,
\* and for a collection with pairwise distinct createdAt timestamps
\* sort(sort(N, newest), oldest) is the reverse of sort(N, newest).
C18_OldestReversesNewest ==
    call.fn = "sortNotes" =>
        /\ call.option = "newest" =>
              \A i, j \in DOMAIN call.result :
                  i < j => call.result[i].createdAt >= call.result[j].createdAt
        /\ call.option = "oldest" =>
              \A i, j \in DOMAIN call.result :
                  i < j => call.result[i].createdAt <= call.result[j].createdAt
        /\ ( /\ call.of = "result"
             /\ call.before = "newest"
             /\ call.option = "oldest"
             /\ DistinctTimestamps(call.original) )
              => call.result = Reverse(call.input)

\* C18 witness: three notes with distinct timestamps, not in order at first,
\* were sorted newest first and the result was sorted oldest first
C18_Witness ==
    /\ call.fn = "sortNotes"
    /\ call.of = "result"
    /\ call.before = "newest"
    /\ call.option = "oldest"
    /\ Len(call.original) = 3
    /\ DistinctTimestamps(call.original)
    /\ call.input # call.original
    /\ call.result = Reverse(call.input)

\* C19: stats(N).priorities always has the three keys high, medium and low,
\* and each count is the number of notes with that priority (zero for a
\* priority no note has).
C19_PriorityCountsAlwaysPresent ==
    call.fn = "getNoteStats" =>
        /\ DOMAIN call.result.priorities = Priorities
        /\ \A p \in Priorities :
              call.result.priorities[p] =
                  Cardinality({i \in DOMAIN call.input :
                                  call.input[i].priority = p})

\* C20 as claimed: stats(N).recentNotes is the number of notes created in
\* the seven days (of 24 hours) up to the instant of the call, a note
\* created exactly seven days before that instant included.
C20_RecentWindowInclusive ==
    call.fn = "getNoteStats" =>
        call.result.recentNotes =
            Cardinality({i \in DOMAIN call.input :
                            call.input[i].createdAt >= call.at - 7 * DayMs})

\* C20 as amended: stats(N).recentNotes is the number of notes created
\* strictly later than the instant that has the local wall-clock time seven
\* calendar days before the clock reading taken when the note is examined:
\* a note created exactly at that instant is not counted.
C20_RecentWindowExclusive ==
    call.fn = "getNoteStats" =>
        call.result.recentNotes =
            Cardinality({i \in DOMAIN call.input :
                            call.input[i].createdAt
                                > (call.readings[i] - 7 * DayMs)
                                      + call.zoneShift})

\* C20 witness: of three notes created today, exactly seven days ago and ten
\* days ago, with no change of the zone offset and no tick of the clock, only
\* the first is counted
C20_Witness ==
    /\ call.fn = "getNoteStats"
    /\ call.zoneShift = 0
    /\ Len(call.input) = 3
    /\ call.input[1].createdAt = call.at
    /\ call.input[2].createdAt = call.at - 7 * DayMs
    /\ call.input[3].createdAt = call.at - 10 * DayMs
    /\ \A i \in DOMAIN call.input : call.readings[i] = call.at
    /\ call.result.recentNotes = 1

\* a text without any character other than white space
IsBlank(text) == \A i \in DOMAIN text : IsSpace(text[i])

\* the message of each rule of validate the candidate violates, a missing
\* priority or category being an undefined or empty one (a text outside the
\* enumeration is the subject of C22)
ViolatedRules(c) ==
    (IF IsBlank(c.title) THEN {"Title is required"} ELSE {})
    \cup (IF IsBlank(c.content) THEN {"Content is required"} ELSE {})
    \cup (IF c.priority \in {Undefined, ""} THEN {"Priority is required"} ELSE {})
    \cup (IF c.category \in {Undefined, ""} THEN {"Category is required"} ELSE {})

C22_UnknownEnumerationValueReported ==
    call.fn = "validateNote" =>
        /\ call.input.priority \notin Priorities
              => "Priority is required" \in Range(call.result)
        /\ call.input.category \notin Categories
              => "Category is required" \in Range(call.result)

\* C23: round trip: after the collection X has been written to the store as
\* a whole, loading returns the same notes in the same order with every field
\* equal, createdAt and updatedAt being the same instants.
C23_RoundTrip ==
    (call.fn = "getAllNotes" /\ call.ok) =>
        /\ Len(call.result) = Len(call.input)
        /\ \A i \in DOMAIN call.input : call.result[i] = call.input[i]

\* C23 witness: two notes were written and read back, the first one edited
\* after its creation on a millisecond that is no whole second
C23_Witness ==
    /\ call.fn = "getAllNotes"
    /\ call.ok
    /\ Len(call.input) = 2
    /\ call.input[1].createdAt % 1000 # 0
    /\ call.input[1].updatedAt # call.input[1].createdAt
    /\ call.input[2].tags = <<>>
    /\ Len(call.result) = 2

\* C24: when the stored entry is present but not parseable, the load is
\* told apart from the load of a store that was never written: the caller
\* takes the collection as empty and shows a warning.
C24_CorruptLoadWarns ==
    [][ ( /\ loadPhase = "pending"
          /\ loadPhase' \notin {"pending", "unavailable"}
          /\ store.corrupt )
        => ( /\ notes' = <<>>
             /\ toast' \notin {"none", "Welcome"} ) ]_vars

\* the pieces of a text: the positions <<first, last>> of its maximal runs
\* of characters that are neither a comma nor white space
Pieces(text) ==
    { <<i, j>> \in (DOMAIN text) \X (DOMAIN text) :
        /\ i <= j
        /\ \A k \in i..j : text[k] # "," /\ text[k] # " "
        /\ i > 1 => text[i - 1] \in {",", " "}
        /\ j < Len(text) => text[j + 1] \in {",", " "} }

\* C25: parseTags splits its input on runs of commas and white space and
\* returns, in input order, exactly the non-empty pieces, lower-cased: no tag
\* is empty or holds a comma, white space or an upper-case letter, equal tags
\* are all kept, and an empty or white-space input gives the empty sequence.
C25_ParseTagsReturnsLowerCasedPieces ==
    call.fn = "parseTags" =>
        /\ Len(call.result) = Cardinality(Pieces(call.input))
        /\ \A p \in Pieces(call.input) :
              \E k \in {1 + Cardinality({q \in Pieces(call.input) : q[1] < p[1]})} :
                 /\ k \in DOMAIN call.result
                 /\ SameIgnoringCase(call.result[k],
                                     SubSeq(call.input, p[1], p[2]))
        /\ \A k \in DOMAIN call.result :
              /\ call.result[k] # <<>>
              /\ \A i \in DOMAIN call.result[k] :
                    /\ call.result[k][i] \notin {",", " "}
                    /\ ~IsUpper(call.result[k][i])
        /\ IsBlank(call.input) => call.result = <<>>

\* C25 witness: a text with an upper-case piece, a run of two separators and
\* the same piece again gave two equal tags
C25_Witness ==
    /\ call.fn = "parseTags"
    /\ call.input = <<"B", ",", " ", "B">>
    /\ call.result = << <<"b">>, <<"b">> >>

\* C26: a favorite toggle flips isFavorite of the note it acts on and sets
\* its updatedAt to the instant of the toggle; the other fields of that note
\* and every other note stay as they were (a second toggle, flipping again,
\* brings the first value of isFavorite back).
C26_ToggleChangesFavoriteOnly ==
    [][ \A id \in CardIds :
          ( /\ ~isFormOpen
            /\ saves' # saves
            /\ handleToggleFavorite(id, TRUE, now', TRUE) )
          => /\ Len(notes') = Len(notes)
             /\ \A i \in DOMAIN notes :
                   notes'[i] = IF notes[i].id = id
                               THEN [notes[i] EXCEPT
                                        !.isFavorite = ~notes[i].isFavorite,
                                        !.updatedAt = now']
                               ELSE notes[i] ]_vars

\* the notes with this id in the collection the handlers run against
C27_Targets(id) == {n \in Range(rendered) : n.id = id}

\* C27: deleting a note that is high priority or a favorite asks for a
\* confirmation, and a declined one leaves the in-memory and the persisted
\* collection as they were; a note that is neither is deleted without any
\* confirmation; a delete of an id that is not in the in-memory collection
\* changes nothing, the stored entry included.
C27_DeleteConfirmsImportantNotes ==
    [][ \A id \in CardIds :
          /\ handleDeleteNote(id, FALSE, TRUE, FALSE) =>
                /\ (\E n \in C27_Targets(id) : n.priority = "high" \/ n.isFavorite)
                      => (notes' = notes /\ store' = store)
                /\ ( /\ C27_Targets(id) # {}
                     /\ \A n \in C27_Targets(id) :
                           n.priority # "high" /\ ~n.isFavorite )
                      => /\ id \notin IdsOf(notes')
                         /\ id \notin IdsOf(getAllNotes(store'))
          /\ \A confirmed \in BOOLEAN, writeOk \in BOOLEAN :
                (handleDeleteNote(id, confirmed, writeOk, FALSE)
                    /\ C27_Targets(id) = {})
                   => (notes' = notes /\ store' = store /\ toast' = toast) ]_vars

\* C27 witness: the sample of medium priority, no longer a favorite, was
\* deleted; the two notes left are of high priority
C27_Witness ==
    /\ toast = "Note Deleted"
    /\ saves = 1
    /\ Len(notes) = 2
    /\ \A n \in allNotes : n.priority = "high"

\* a card is still shown for a note that is no longer in the collection the
\* handlers run against
C27_StaleCard ==
    /\ loadPhase = "ok"
    /\ ~isFormOpen
    /\ \E id \in CardIds : C27_Targets(id) = {}

\* C28 as claimed: in every reachable state in which the search panel is
\* hidden every filter field is reset and the displayed list holds every note
\* of the in-memory collection.
C28_HiddenPanelShowsEveryNote ==
    ~showSearch =>
        /\ searchFilters = NoFilters
        /\ IsPermutation(filteredNotes, notes)

\* C28 as amended: whenever the search panel is hidden every filter field is
\* reset, and once the filter/sort effect has run the displayed list holds
\* every note of the in-memory collection; hiding the panel, by the toggle or
\* by the close button, keeps the sort option.
C28_HiddenPanelResetsFilters ==
    /\ [](~showSearch =>
            /\ searchFilters = NoFilters
            /\ ~effectPending => IsPermutation(filteredNotes, notes))
    /\ [][(showSearch /\ ~showSearch') => sortBy' = sortBy]_vars

\* C28 witness: the panel was opened, the sort option changed and the panel
\* hidden again; the list shows the notes in that order
C28_Witness ==
    /\ ~showSearch
    /\ ~effectPending
    /\ sortBy = "title"
    /\ Len(notes) >= 2
    /\ Len(filteredNotes) = Len(notes)

\* C29: the load always finishes: on every path of the load effect the
\* loading flag becomes false, and it stays false until the next load starts
\* (the page is loaded again).
C29_LoadingEnds ==
    /\ isLoading ~> ~isLoading
    /\ [](loadPhase # "pending" => ~isLoading)
    /\ [][(~isLoading /\ isLoading') => loadPhase' = "pending"]_vars

\* C29 witness: the load ended on the path that reports a failure, with the
\* loading flag false
C29_Witness ==
    /\ loadPhase = "error"
    /\ toast = "Error Loading Notes"
    /\ ~isLoading

\* C30: when the storage probe fails at load, the load neither reads nor
\* seeds: the in-memory collection stays empty, the stored entry is not
\* written, and the user is warned.
C30_UnavailableStorageLoadsNothing ==
    [][ (loadPhase = "pending" /\ loadPhase' = "unavailable")
        => /\ notes' = <<>>
           /\ store' = store
           /\ toast' = "Storage Unavailable"
           /\ ~isLoading' ]_vars

\* C30 witness: the load of a store without entry ended with the warning,
\* nothing seeded
C30_Witness ==
    /\ loadPhase = "unavailable"
    /\ toast = "Storage Unavailable"
    /\ store = NoEntry
    /\ notes = <<>>
    /\ ~isLoading

====
